---- MODULE Spec2Model ----
(***************************************************************************)
(* DallasEPROM: page-oriented protocol engine for Dallas/Maxim 1-Wire      *)
(* EPROM and EEPROM devices (src/DallasEPROM.h, src/DallasEPROM.cpp).      *)
(*                                                                         *)
(* The engine is modelled as built for the AVR Arduino targets the library *)
(* is written for: int and unsigned int are 16 bits wide and plain char is *)
(* signed.  Every public method is one action; the bytes it exchanges with *)
(* the OneWire bus and the programming pin are recorded, in order, in      *)
(* call.log.  A bool return value is recorded as the integer the caller    *)
(* sees (0 or 1).                                                          *)
(***************************************************************************)
EXTENDS Integers, Sequences, FiniteSets, TLC

\* ---- OneWire commands and status codes (DallasEPROM.h) ------------------
READSTATUS == 170
VERIFYRESUME == 165
WRITESTATUS == 85
READMEMORY == 240
WRITEMEMORY == 15

CRC_MISMATCH == -1
INVALID_PAGE == -2
BAD_INTEGRITY == -4
COPY_FAILURE == -5
DEVICE_DISCONNECTED == -127
PAGE_LOCKED == -3
UNSUPPORTED_DEVICE == -64

\* ---- widths of the AVR build --------------------------------------------
IntBits == 16
Pow2(n) == 2 ^ n
UInt(x) == x % Pow2(IntBits)
Byte(x) == x % 256
\* conversion of an int expression to the bool a method returns
ToBool(x) == IF x # 0 THEN 1 ELSE 0

\* ---- the registry -------------------------------------------------------
\* entry i of the C array is element i+1 of the sequence; the last entry is
\* the all-zero terminator, whose name is the null pointer
_chip_model_list ==
  << [id |-> 9,  name |-> "DS2502", pages |-> 4,  isEPROM |-> TRUE],
     [id |-> 11, name |-> "DS2505", pages |-> 64, isEPROM |-> TRUE],
     [id |-> 20, name |-> "DS2430", pages |-> 1,  isEPROM |-> FALSE],
     [id |-> 45, name |-> "DS2431", pages |-> 4,  isEPROM |-> FALSE],
     [id |-> 35, name |-> "DS2433", pages |-> 16, isEPROM |-> FALSE],
     [id |-> 0,  name |-> "NULL",   pages |-> 0,  isEPROM |-> FALSE] >>

Model(i) == _chip_model_list[i + 1]

\* every family code of the registry is taken for that of the first entry
LookupFrom_zero(id, i) ==
  IF \E k \in 0 .. 4 : Model(k).id = id THEN 0 ELSE -1

\* the table walk of search(), setAddress() and isSupported(): the index of
\* the first entry with this id, -1 when the terminator is reached
RECURSIVE LookupFrom(_, _)
LookupFrom(id, i) ==
  IF Model(i).id = 0 THEN -1
  ELSE IF id = Model(i).id THEN i
  ELSE LookupFrom(id, i + 1)

isSupported(deviceAddress) == LookupFrom(deviceAddress[1], 0) >= 0

\* ---- OneWire::crc8 (Dallas/Maxim CRC8, polynomial X^8 + X^5 + X^4 + 1) ---
\* crc ^ 0x8C for a crc below 128
Xor8C(c) ==
  LET b3 == (c \div 8) % 2
      b2 == (c \div 4) % 2
  IN  c + 128 + (IF b3 = 1 THEN -8 ELSE 8) + (IF b2 = 1 THEN -4 ELSE 4)

\* the eight shift steps for one input byte
Crc8Bits[crc \in 0 .. 255, inbyte \in 0 .. 255, n \in 0 .. 8] ==
  IF n = 0 THEN crc
  ELSE LET mix == (crc + inbyte) % 2
           sh  == crc \div 2
       IN  Crc8Bits[IF mix = 1 THEN Xor8C(sh) ELSE sh, inbyte \div 2, n - 1]

crc8(bytes, len) ==
  LET upTo[k \in 0 .. len] ==
        IF k = 0 THEN 0 ELSE Crc8Bits[upTo[k - 1], bytes[k], 8]
  IN  upTo[len]

validAddress(deviceAddress) == crc8(deviceAddress, 7) = deviceAddress[8]

\* ---- the devices of the model -------------------------------------------
\* an 8-byte ROM code: family code, serial, CRC8
Rom(family, serial) ==
  LET first7 == <<family, serial, 0, 0, 0, 0, 0>>
  IN  first7 \o <<crc8(first7, 7)>>

\* two DS2502 that differ in the serial and CRC bytes only, one device of each
\* other supported family, and a DS18B20 thermometer (family 0x28), which
\* the registry does not know
Addresses ==
  { Rom(9, 1), Rom(9, 2), Rom(11, 1), Rom(20, 1), Rom(45, 1), Rom(35, 1),
    Rom(40, 1) }

\* the most devices attached to the bus at a time
MaxBus == 2

\* the most bytes the EEPROM devices are given to keep
MaxStored == 2

\* OneWire::search walks the ROM codes bit by bit, least significant bit of
\* byte 0 first, and takes the 0 branch before the 1 branch: the devices are
\* enumerated in the order of their bit-reversed bytes
Bit(b, i) == (b \div Pow2(i)) % 2
Rev8(b) ==
  128 * Bit(b, 0) + 64 * Bit(b, 1) + 32 * Bit(b, 2) + 16 * Bit(b, 3)
    + 8 * Bit(b, 4) + 4 * Bit(b, 5) + 2 * Bit(b, 6) + Bit(b, 7)

SearchBefore(a, b) ==
  \E i \in 1 .. 8 :
    /\ \A j \in 1 .. (i - 1) : a[j] = b[j]
    /\ Rev8(a[i]) < Rev8(b[i])

\* the ROM codes successive OneWire::search calls return for the devices S
Enumeration(S) ==
  [k \in 1 .. Cardinality(S) |->
     CHOOSE a \in S : Cardinality({b \in S : SearchBefore(b, a)}) = k - 1]

\* the constructors leave _curModelIndex and _addr unset; the values they
\* hold until search() or setAddress() runs are drawn from these
IndeterminateIndex == {0, 3}
IndeterminateAddr == { Rom(45, 1) }

\* the largest page count of the registry
MaxPages == 64

\* 32-byte page contents
Ramp == [i \in 1 .. 32 |-> i]
Blank == [i \in 1 .. 32 |-> 255]
PageData == {Ramp, Blank}

VARIABLES
  _curModelIndex,   \* char _curModelIndex
  _addr,            \* uint8_t _addr[8]
  _progPin,         \* int _progPin, -1 when no pin was given
  pooled,           \* the build gave equal string literals one address
  session,          \* "fresh", "resolved" or "unresolved": what search()
                    \* and setAddress() have established so far
  bus,              \* the ROM codes of the devices attached to the bus
  call,             \* the call that has just returned: arguments, return
                    \* value and bus traffic; op is "none" between calls
  pinLevel,         \* the level of the programming pin, "NONE" without one
  eeprom,           \* what the EEPROM devices hold: <<ROM code, offset,
                    \* byte>>, 0xFF at every offset not listed
  locks             \* the <<ROM code, page>> of the lockPage calls that
                    \* returned 0 on a device that keeps what is committed

vars ==
  <<_curModelIndex, _addr, _progPin, pooled, session, bus, call, pinLevel,
    eeprom, locks>>

NoFault == <<"none", 0>>
NoCall(op) ==
  [op |-> op, page |-> 0, ret |-> 0, log |-> <<>>, data |-> <<>>,
   fault |-> NoFault, name |-> ""]

\* ---- bus events ---------------------------------------------------------
EvReset == <<"reset">>
EvResetSearch == <<"reset_search">>
EvSearch(a) == <<"search", a>>
EvSearchEnd == <<"search_end">>
EvSelect(a) == <<"select", a>>
EvWrite(b) == <<"write", b>>
EvWritePower(b) == <<"write_power", b>>
EvRead(b) == <<"read", b>>
EvReadBytes(bs) == <<"read_bytes", bs>>
EvDepower == <<"depower">>
EvDelay(ms) == <<"delay", ms>>
EvDelayMicroseconds(us) == <<"delayMicroseconds", us>>
EvDigitalWrite(pin, level) == <<"digitalWrite", pin, level>>

\* ---- private helpers ----------------------------------------------------
isPageValid(page) ==
  _curModelIndex >= 0 /\ page < Model(_curModelIndex).pages

isEPROMDevice ==
  _curModelIndex >= 0 /\ Model(_curModelIndex).isEPROM = TRUE

\* name == "DS2430" compares two pointers: it holds for the DS2430 entry
\* when the build pooled the two equal literals, and for no other entry
NameIsDS2430 == Model(_curModelIndex).name = "DS2430" /\ pooled

memcmp(a, b, n) == IF \A i \in 1 .. n : a[i] = b[i] THEN 0 ELSE 1

\* ---- session operations -------------------------------------------------
\* the loop takes the first enumerated device, in the registry or not
RECURSIVE SearchLoop_first(_, _, _, _)
SearchLoop_first(found, k, addr, log) ==
  IF k > Len(found)
    THEN [found |-> FALSE, index |-> -1, addr |-> addr,
          log |-> Append(log, EvSearchEnd)]
    ELSE [found |-> TRUE, index |-> LookupFrom(found[k][1], 0),
          addr |-> found[k], log |-> Append(log, EvSearch(found[k]))]

\* the while loop of search(): every enumerated ROM code is stored in _addr
RECURSIVE SearchLoop(_, _, _, _)
SearchLoop(found, k, addr, log) ==
  IF k > Len(found)
    THEN [found |-> FALSE, index |-> -1, addr |-> addr,
          log |-> Append(log, EvSearchEnd)]
    ELSE LET i == LookupFrom(found[k][1], 0)
             log1 == Append(log, EvSearch(found[k]))
         IN  IF i >= 0
               THEN [found |-> TRUE, index |-> i, addr |-> found[k], log |-> log1]
               ELSE SearchLoop(found, k + 1, found[k], log1)

search(presence) ==
  IF ~presence
    THEN [found |-> FALSE, index |-> -1, addr |-> _addr, log |-> <<EvReset>>]
    ELSE SearchLoop(Enumeration(bus), 1, _addr, <<EvReset, EvResetSearch>>)

\* the while loop of isConnected()
RECURSIVE ConnectedLoop(_, _, _)
ConnectedLoop(found, k, log) ==
  IF k > Len(found)
    THEN [ok |-> FALSE, log |-> Append(log, EvSearchEnd)]
    ELSE IF memcmp(_addr, found[k], 8) = 0
           THEN [ok |-> TRUE, log |-> Append(log, EvSearch(found[k]))]
           ELSE ConnectedLoop(found, k + 1, Append(log, EvSearch(found[k])))

isConnected(presence) ==
  IF ~presence
    THEN [ok |-> FALSE, log |-> <<EvReset>>]
    ELSE ConnectedLoop(Enumeration(bus), 1, <<EvReset, EvResetSearch>>)

\* the scan stores every enumerated ROM code in _addr, as search() does
AddrAfterConnected_scanned(presence) ==
  LET log == isConnected(presence).log
      at == {i \in 1 .. Len(log) : log[i][1] = "search"}
  IN  IF at = {} THEN _addr
      ELSE log[CHOOSE i \in at : \A j \in at : j <= i][2]

\* lines 109 and 114: the scan fills the local tmpAddress; _addr is what
\* it was
AddrAfterConnected(presence) == _addr

\* the page operations call isConnected() once the page is found valid
AddrAfterPageOp(page, presence) ==
  IF isPageValid(page) THEN AddrAfterConnected(presence) ELSE _addr

getDeviceName ==
  IF _curModelIndex >= 0 THEN Model(_curModelIndex).name ELSE "NULL"

\* ---- the device's answers -------------------------------------------------
\* A call is run against a device script: the fault, if any, that the device
\* shows during the call, and the bytes it holds.  A faulty byte is the
\* right byte plus one.
Corrupt(b) == Byte(b + 1)
DeviceCrc(command, len, bad) ==
  IF bad THEN Corrupt(crc8(command, len)) ELSE crc8(command, len)

Result(ret, log, data) == [ret |-> ret, log |-> log, data |-> data]

\* ---- readPage ------------------------------------------------------------
\* the redirect byte is read and dropped
RedirectedAddress_dropped(address, new_addr) == address

\* lines 143-144: a redirect byte other than 0xFF replaces the address
RedirectedAddress(address, new_addr) ==
  IF new_addr # 255 THEN new_addr ELSE address

\* lines 147-167: the memory read at the address settled on
readMemory(address, log, dev) ==
  LET command == <<READMEMORY, Byte(address), Byte(address \div 256)>>
      echo == DeviceCrc(command, 3, dev.fault[1] = "crc_memory")
      sent == log \o <<EvReset, EvSelect(_addr), EvWrite(command[1]),
                       EvWrite(command[2]), EvWrite(command[3])>>
  IN  IF isEPROMDevice /\ crc8(command, 3) # echo
        THEN Result(CRC_MISMATCH, Append(sent, EvRead(echo)), <<>>)
        ELSE Result(0,
                    (IF isEPROMDevice THEN Append(sent, EvRead(echo)) ELSE sent)
                      \o [i \in 1 .. 32 |-> EvRead(dev.mem[i])],
                    [i \in 1 .. 32 |-> dev.mem[i]])

readPage(page, presence, dev) ==
  LET address == UInt(page * 32)
      conn == isConnected(presence)
  IN  IF ~isPageValid(page) THEN Result(INVALID_PAGE, <<>>, <<>>)
      ELSE IF ~conn.ok THEN Result(DEVICE_DISCONNECTED, conn.log, <<>>)
      ELSE IF isEPROMDevice
        THEN LET command == <<READSTATUS, Byte(page + 1), 0>>
                 echo == DeviceCrc(command, 3, dev.fault[1] = "crc_status")
                 sent == conn.log \o
                           <<EvReset, EvSelect(_addr), EvWrite(command[1]),
                             EvWrite(command[2]), EvWrite(command[3]),
                             EvRead(echo)>>
                 new_addr == dev.redirect
             IN  IF crc8(command, 3) # echo
                   THEN Result(CRC_MISMATCH, sent, <<>>)
                   ELSE readMemory(RedirectedAddress(address, new_addr),
                                   Append(sent, EvRead(new_addr)), dev)
        ELSE readMemory(address, conn.log, dev)

\* ---- scratchWrite ---------------------------------------------------------
\* echoBad: the 1-based index of the scratchpad byte the device echoes wrong,
\* 0 for none; copyBad: the device does not answer 0xAA after the copy
Minimum(S) == CHOOSE m \in S : \A x \in S : m <= x

\* the integrity check passes whatever the scratchpad holds
IntegrityBroken_never(echoed, sent) == FALSE

\* line 355: a scratchpad byte read back differs from the byte sent
IntegrityBroken(echoed, sent) == echoed # sent

scratchWrite(data, length, address, echoBad, copyBad) ==
  LET sent == <<EvReset, EvSelect(_addr), EvWrite(WRITEMEMORY),
                EvWrite(Byte(address)), EvWrite(Byte(address \div 256))>>
                \o [i \in 1 .. length |-> EvWrite(data[i])]
  IN  IF NameIsDS2430
        THEN [status |-> 0,
              log |-> sent \o <<EvReset, EvSelect(_addr), EvWrite(WRITESTATUS),
                                EvWrite(VERIFYRESUME), EvDelay(10), EvDepower>>]
        ELSE
          LET \* the device answers TA1, TA2 and E/S, then the scratchpad
              auth == <<Byte(address), Byte(address \div 256), length - 1>>
              echo(i) == IF i = echoBad THEN Corrupt(data[i]) ELSE data[i]
              bad == {i \in 1 .. length : IntegrityBroken(echo(i), data[i])}
              asked == sent \o <<EvReset, EvSelect(_addr), EvWrite(READSTATUS),
                                 EvReadBytes(auth)>>
              success == IF copyBad THEN 0 ELSE 170
          IN  IF bad # {}
                THEN [status |-> BAD_INTEGRITY,
                      log |-> asked \o [i \in 1 .. Minimum(bad) |-> EvRead(echo(i))]]
                ELSE [status |-> IF success # 170 THEN COPY_FAILURE ELSE 0,
                      log |-> asked \o [i \in 1 .. length |-> EvRead(echo(i))]
                                \o <<EvReset, EvSelect(_addr), EvWrite(WRITESTATUS),
                                     EvWrite(auth[1]), EvWrite(auth[2]),
                                     EvWritePower(auth[3]), EvDelay(10),
                                     EvDepower, EvRead(success)>>]

\* ---- writePage -----------------------------------------------------------
\* the part of a device fault that falls into the chunk at offset i
ChunkEchoBad(fault, i) ==
  IF fault[1] = "echo" /\ fault[2] \in i .. (i + 7) THEN fault[2] - i + 1 ELSE 0
ChunkCopyBad(fault, i) == fault[1] = "copy" /\ fault[2] = i

\* the loop goes on after a failed chunk and drops its status
RECURSIVE writeChunks_goOn(_, _, _, _, _)
writeChunks_goOn(data, address, i, log, fault) ==
  IF ~(i < 32) THEN Result(0, log, data)
  ELSE LET s == scratchWrite(SubSeq(data, i + 1, i + 8), 8, UInt(address + i),
                             ChunkEchoBad(fault, i), ChunkCopyBad(fault, i))
       IN  writeChunks_goOn(data, address, i + 8, log \o s.log, fault)

\* lines 183-187: the loop over the four 8-byte chunks, from offset i on
RECURSIVE writeChunks(_, _, _, _, _)
writeChunks(data, address, i, log, fault) ==
  IF ~(i < 32) THEN Result(0, log, data)
  ELSE LET s == scratchWrite(SubSeq(data, i + 1, i + 8), 8, UInt(address + i),
                             ChunkEchoBad(fault, i), ChunkCopyBad(fault, i))
       IN  IF s.status # 0
             THEN Result(s.status, log \o s.log, data)
             ELSE writeChunks(data, address, i + 8, log \o s.log, fault)

\* the CRC echo of the device is not looked at
EchoMismatch_ignored(command, echo) == FALSE

\* lines 202 and 259: the device's CRC echo is not the CRC8 of the four
\* bytes sent
EchoMismatch(command, echo) == crc8(command, 4) # echo

\* the pin is raised and never lowered
Pulse_held ==
  (IF _progPin >= 0
     THEN <<EvDigitalWrite(_progPin, "HIGH"), EvDelayMicroseconds(500)>>
     ELSE <<>>) \o <<EvDelayMicroseconds(500)>>

\* lines 206-211: the programming pulse and the settle delay after it
Pulse ==
  (IF _progPin >= 0
     THEN <<EvDigitalWrite(_progPin, "HIGH"), EvDelayMicroseconds(500),
            EvDigitalWrite(_progPin, "LOW")>>
     ELSE <<>>) \o <<EvDelayMicroseconds(500)>>

\* the verification accepts whatever the device reads back
BurnFailed_never(written, readBack) == FALSE

\* lines 214 and 234: the byte read back after the pulse is not the byte
\* that was written
BurnFailed(written, readBack) == written # readBack

\* lines 190-238: the EPROM path
writeEPROM(data, address, log, fault) ==
  LET command == <<WRITEMEMORY, Byte(address), Byte(address \div 256), data[1]>>
      echo == DeviceCrc(command, 4, fault[1] = "crc_write")
      sent == log \o <<EvReset, EvSelect(_addr), EvWrite(command[1]),
                       EvWrite(command[2]), EvWrite(command[3]),
                       EvWrite(command[4]), EvRead(echo)>>
      \* the byte the device reads back after burning data[i]
      burnt(i) == IF fault = <<"burn", i>> THEN Corrupt(data[i + 1])
                                          ELSE data[i + 1]
      first == sent \o Pulse \o <<EvRead(burnt(0))>>
      \* the device's answer to byte i, which the engine reads and drops
      ack(i) == Rev8(data[i + 1])
      step(i) == <<EvWrite(data[i + 1]), EvRead(ack(i))>> \o Pulse
                   \o <<EvRead(burnt(i))>>
      stepLen == Len(Pulse) + 3
      failed == {i \in 1 .. 31 : BurnFailed(data[i + 1], burnt(i))}
      last == IF failed = {} THEN 31 ELSE Minimum(failed)
  IN  IF EchoMismatch(command, echo) THEN Result(CRC_MISMATCH, sent, data)
      ELSE IF BurnFailed(command[4], burnt(0))
        THEN Result(COPY_FAILURE, first, data)
      ELSE Result(IF failed = {} THEN 0 ELSE COPY_FAILURE,
                  first \o [j \in 1 .. (last * stepLen) |->
                              step(((j - 1) \div stepLen) + 1)
                                  [((j - 1) % stepLen) + 1]],
                  data)

writePage(data, page, presence, dev) ==
  LET address == UInt(page * 32)
      conn == isConnected(presence)
  IN  IF ~isPageValid(page) THEN Result(INVALID_PAGE, <<>>, data)
      ELSE IF ~conn.ok THEN Result(DEVICE_DISCONNECTED, conn.log, data)
      ELSE IF ~isEPROMDevice
        THEN writeChunks(data, address, 0, conn.log, dev.fault)
        ELSE writeEPROM(data, address, conn.log, dev.fault)

\* ---- lockPage ------------------------------------------------------------
\* 1 << page in a 16-bit int: a shift count that is negative or not below
\* the width has no defined result, the build yields some value ub
ShiftLeftOne(page, ub) ==
  IF page >= 0 /\ page < IntBits THEN Pow2(page) ELSE ub

\* line 275: the offset of the protection byte of the page
lockStart(page) == UInt(Model(_curModelIndex).pages * 32 + page)

lockPage(page, presence, dev) ==
  LET conn == isConnected(presence)
      selected == conn.log \o <<EvReset, EvSelect(_addr)>>
  IN  IF ~isPageValid(page) THEN Result(INVALID_PAGE, <<>>, <<>>)
      ELSE IF ~conn.ok THEN Result(DEVICE_DISCONNECTED, conn.log, <<>>)
      ELSE IF isEPROMDevice
        THEN LET command == <<WRITESTATUS, 0, 0, Byte(ShiftLeftOne(page, dev.ub))>>
                 echo == DeviceCrc(command, 4, dev.fault[1] = "crc_lock")
                 sent == selected \o
                           <<EvWrite(command[1]), EvWrite(command[2]),
                             EvWrite(command[3]), EvWrite(command[4]),
                             EvRead(echo)>>
             IN  IF EchoMismatch(command, echo)
                   THEN Result(CRC_MISMATCH, sent, <<>>)
                   ELSE Result(0, sent \o Pulse, <<>>)
        ELSE LET data == <<85>>
                 start == lockStart(page)
                 s == scratchWrite(data, 1, start, ChunkEchoBad(dev.fault, 0),
                                   ChunkCopyBad(dev.fault, 0))
             IN  \* line 276: the status of scratchWrite is dropped
                 Result(0, selected \o s.log, <<>>)

\* ---- isPageLocked --------------------------------------------------------
\* status >> page, the byte promoted to a 16-bit int
ShiftRight(status, page, ub) ==
  IF page >= 0 /\ page < IntBits THEN status \div Pow2(page) ELSE ub

\* the byte read is the first byte of the page
lockedStart_page(page) == UInt(page * 32)

\* line 311: the offset of the protection byte of the page
lockedStart(page) == UInt(Model(_curModelIndex).pages * 32 + page)

\* the method returns bool: every return value is converted with ToBool
isPageLocked(page, presence, dev) ==
  LET conn == isConnected(presence)
      selected == conn.log \o <<EvReset, EvSelect(_addr)>>
  IN  IF ~isPageValid(page) THEN Result(ToBool(INVALID_PAGE), <<>>, <<>>)
      ELSE IF ~conn.ok THEN Result(ToBool(DEVICE_DISCONNECTED), conn.log, <<>>)
      ELSE IF isEPROMDevice
        THEN LET command == <<READSTATUS, 0, 0>>
                 echo == DeviceCrc(command, 3, dev.fault[1] = "crc_status")
                 sent == selected \o
                           <<EvWrite(command[1]), EvWrite(command[2]),
                             EvWrite(command[3]), EvRead(echo)>>
                 status == dev.status
             IN  IF crc8(command, 3) # echo
                   THEN Result(ToBool(CRC_MISMATCH), sent, <<>>)
                   ELSE Result(ToBool(ShiftRight(status, page, dev.ub) % 2),
                               sent \o <<EvRead(status), EvReset>>, <<>>)
        ELSE LET start == lockedStart(page)
                 sent == selected \o
                           <<EvWrite(READMEMORY), EvWrite(Byte(start)),
                             EvWrite(Byte(start \div 256)), EvRead(dev.status)>>
             IN  Result(ToBool(IF dev.status = 85 THEN 1 ELSE 0), sent, <<>>)

\* reset() reports presence only when a device is attached; it can also fail
\* with devices attached
Presences == IF bus = {} THEN {FALSE} ELSE BOOLEAN

\* page arguments: a negative index, the first and the last page of the
\* selected model and the first index past them; with no model selected, the
\* first page and the ends of the largest page range
Pages ==
  IF _curModelIndex >= 0
    THEN {-1, 0, Model(_curModelIndex).pages - 1, Model(_curModelIndex).pages}
    ELSE {-1, 0, MaxPages - 1, MaxPages}

\* page arguments of lockPage: those above and, where the selected model has
\* them, the last page with a bit in the mask byte and the first without
LockPages == Pages \cup {p \in {7, 8} : isPageValid(p)}

\* the page operation gets past its preamble and talks to the device
Reached(page, presence) == isPageValid(page) /\ isConnected(presence).ok

NoDev == [fault |-> NoFault, redirect |-> 255, mem |-> Blank, ub |-> 0,
          status |-> 0]

\* device scripts of readPage
ReadDevs(page, presence) ==
  IF ~Reached(page, presence) THEN {NoDev}
  ELSE IF isEPROMDevice
    THEN {[NoDev EXCEPT !.fault = f, !.redirect = r, !.mem = m] :
            f \in {NoFault, <<"crc_status", 0>>, <<"crc_memory", 0>>},
            r \in {255, 7}, m \in PageData}
    ELSE {[NoDev EXCEPT !.mem = m] : m \in PageData}

\* the values an out-of-range shift is taken to yield
ShiftValues(page) == IF page >= 0 /\ page < IntBits THEN {0} ELSE {0, 1}

\* device scripts of writePage
WriteDevs(page, presence) ==
  IF ~Reached(page, presence) THEN {NoDev}
  ELSE IF isEPROMDevice
    THEN {[NoDev EXCEPT !.fault = f] :
            f \in {NoFault, <<"crc_write", 0>>, <<"burn", 0>>, <<"burn", 1>>,
                   <<"burn", 31>>}}
  ELSE IF NameIsDS2430 THEN {NoDev}
  ELSE {[NoDev EXCEPT !.fault = f] :
          f \in {NoFault, <<"echo", 0>>, <<"echo", 12>>, <<"copy", 8>>,
                 <<"copy", 24>>}}

\* device scripts of lockPage
LockDevs(page, presence) ==
  IF ~Reached(page, presence) THEN {NoDev}
  ELSE IF isEPROMDevice
    THEN {[NoDev EXCEPT !.fault = f, !.ub = u] :
            f \in {NoFault, <<"crc_lock", 0>>}, u \in ShiftValues(page)}
  ELSE IF NameIsDS2430 THEN {NoDev}
  ELSE {[NoDev EXCEPT !.fault = f] :
          f \in {NoFault, <<"echo", 0>>, <<"copy", 0>>}}

\* device scripts of isPageLocked: the status byte is the EPROM's lock bits
\* or the EEPROM's protection byte
LockedDevs(page, presence) ==
  IF ~Reached(page, presence) THEN {NoDev}
  ELSE IF isEPROMDevice
    THEN {[NoDev EXCEPT !.fault = f, !.status = st, !.ub = u] :
            f \in {NoFault, <<"crc_status", 0>>}, st \in {0, 9},
            u \in ShiftValues(page)}
    ELSE {[NoDev EXCEPT !.status = st] : st \in {85, 255}}

PageCall(op, page, r, dev) ==
  [op |-> op, page |-> page, ret |-> r.ret, log |-> r.log, data |-> r.data,
   fault |-> dev.fault, name |-> ""]

\* the level digitalWrite() left the programming pin at
PinAfter(level, log) ==
  LET at == {i \in 1 .. Len(log) : log[i][1] = "digitalWrite"}
  IN  IF at = {} THEN level
      ELSE log[CHOOSE i \in at : \A j \in at : j <= i][3]

\* ---- an EEPROM device that keeps what is committed ------------------------
\* the byte the device with this ROM code holds at the offset
Stored(rom, offset) ==
  LET hit == {t \in eeprom : t[1] = rom /\ t[2] = offset}
  IN  IF hit = {} THEN 255 ELSE (CHOOSE t \in hit : TRUE)[3]

\* what the devices take from the traffic of a call: for every scratchpad
\* write (select, WRITEMEMORY, two address bytes, data bytes) that a copy
\* command (select, WRITESTATUS) follows, each data byte at its offset
Committed(log) ==
  LET isWrite(i) == i <= Len(log) /\ log[i][1] = "write"
      starts == {s \in 1 .. Len(log) :
                   /\ log[s][1] = "select"
                   /\ isWrite(s + 1) /\ log[s + 1][2] = WRITEMEMORY
                   /\ isWrite(s + 2) /\ isWrite(s + 3)
                   /\ \E c \in (s + 1) .. Len(log) :
                        /\ log[c][1] = "select"
                        /\ isWrite(c + 1) /\ log[c + 1][2] = WRITESTATUS}
      bytes(s) == {k \in 0 .. 31 : \A j \in 0 .. k : isWrite(s + 4 + j)}
  IN  UNION { { <<log[s][2], log[s + 2][2] + 256 * log[s + 3][2] + k,
                  log[s + 4 + k][2]>> : k \in bytes(s) } : s \in starts }

\* the device memory after the writes
Store(mem, writes) ==
  {t \in mem : ~\E w \in writes : w[1] = t[1] /\ w[2] = t[2]} \cup writes

\* the offset a memory read of the call asked for: the two bytes written
\* after READMEMORY
ReadOffset(log) ==
  LET at == {i \in 1 .. Len(log) :
               /\ log[i][1] = "write" /\ log[i][2] = READMEMORY
               /\ i + 2 <= Len(log)
               /\ log[i - 1][1] = "select"}
      i == CHOOSE j \in at : TRUE
  IN  log[i + 1][2] + 256 * log[i + 2][2]

\* the script of a device that answers a memory read with what it holds
StoredDev(page, presence) ==
  IF Reached(page, presence) /\ ~isEPROMDevice
    THEN [NoDev EXCEPT !.status =
            Stored(_addr, ReadOffset(isPageLocked(page, presence, NoDev).log))]
    ELSE NoDev

\* the page arguments from 0 on
PagesFromZero == {p \in Pages : p >= 0}

\* the engine is synchronous and blocking: a call starts when the caller
\* has taken the result of the one before
Idle == call.op = "none"

\* The engines of the model: one built without a programming pin and one
\* with pin 7, one by a build that pools equal string literals and one by a
\* build that does not.  The pin is used on EPROM devices only and the
\* literal comparison decides for the DS2430 only.
Builds == { [progPin |-> -1, pooled |-> TRUE], [progPin |-> 7, pooled |-> FALSE] }

Init ==
  /\ _curModelIndex \in IndeterminateIndex
  /\ _addr \in IndeterminateAddr
  /\ \E b \in Builds : _progPin = b.progPin /\ pooled = b.pooled
  /\ session = "fresh"
  /\ bus = {}
  /\ call = NoCall("none")
  /\ pinLevel = IF _progPin >= 0 THEN "LOW" ELSE "NONE"
  /\ eeprom = {}
  /\ locks = {}

Search ==
  /\ Idle
  /\ \E presence \in Presences :
         LET r == search(presence)
         IN  /\ _curModelIndex' = r.index
             /\ _addr' = r.addr
             /\ session' = IF r.found THEN "resolved" ELSE "unresolved"
             /\ call' = [NoCall("search") EXCEPT !.ret = ToBool(IF r.found THEN 1 ELSE 0),
                                                 !.log = r.log]
             /\ UNCHANGED <<_progPin, pooled, bus, pinLevel, eeprom, locks>>

SetAddress ==
  /\ Idle
  /\ \E pAddress \in Addresses :
         LET i == LookupFrom(pAddress[1], 0)
         IN  /\ _curModelIndex' = i
             /\ _addr' = pAddress
             /\ session' = IF i >= 0 THEN "resolved" ELSE "unresolved"
             /\ call' = NoCall("setAddress")
             /\ UNCHANGED <<_progPin, pooled, bus, pinLevel, eeprom, locks>>

GetDeviceName ==
  /\ Idle
  /\ call' = [NoCall("getDeviceName") EXCEPT !.name = getDeviceName]
  /\ UNCHANGED <<_curModelIndex, _addr, _progPin, pooled, session, bus,
                 pinLevel, eeprom, locks>>

IsConnected ==
  /\ Idle
  /\ \E presence \in Presences :
         LET r == isConnected(presence)
         IN  /\ call' = [NoCall("isConnected") EXCEPT !.ret = ToBool(IF r.ok THEN 1 ELSE 0),
                                                      !.log = r.log]
             /\ _addr' = AddrAfterConnected(presence)
             /\ UNCHANGED <<_curModelIndex, _progPin, pooled, session, bus,
                            pinLevel, eeprom, locks>>

ReadPage ==
  /\ Idle
  /\ \E page \in Pages, presence \in Presences :
         \E dev \in ReadDevs(page, presence) :
           LET r == readPage(page, presence, dev)
           IN  /\ call' = PageCall("readPage", page, r, dev)
               /\ _addr' = AddrAfterPageOp(page, presence)
               /\ pinLevel' = PinAfter(pinLevel, r.log)
               /\ UNCHANGED <<_curModelIndex, _progPin, pooled, session, bus,
                              eeprom, locks>>

WritePage ==
  /\ Idle
  /\ \E page \in Pages, presence \in Presences, data \in PageData :
         \E dev \in WriteDevs(page, presence) :
           LET r == writePage(data, page, presence, dev)
           IN  /\ call' = PageCall("writePage", page, r, dev)
               /\ _addr' = AddrAfterPageOp(page, presence)
               /\ pinLevel' = PinAfter(pinLevel, r.log)
               /\ UNCHANGED <<_curModelIndex, _progPin, pooled, session, bus,
                              eeprom, locks>>

LockPage ==
  /\ Idle
  /\ \E page \in LockPages, presence \in Presences :
         \E dev \in LockDevs(page, presence) :
           LET r == lockPage(page, presence, dev)
           IN  /\ call' = PageCall("lockPage", page, r, dev)
               /\ _addr' = AddrAfterPageOp(page, presence)
               /\ pinLevel' = PinAfter(pinLevel, r.log)
               /\ UNCHANGED <<_curModelIndex, _progPin, pooled, session, bus,
                              eeprom, locks>>

IsPageLocked ==
  /\ Idle
  /\ \E page \in Pages, presence \in Presences :
         \E dev \in LockedDevs(page, presence) :
           LET r == isPageLocked(page, presence, dev)
           IN  /\ call' = PageCall("isPageLocked", page, r, dev)
               /\ _addr' = AddrAfterPageOp(page, presence)
               /\ pinLevel' = PinAfter(pinLevel, r.log)
               /\ UNCHANGED <<_curModelIndex, _progPin, pooled, session, bus,
                              eeprom, locks>>

\* lockPage reaches a device that echoes the scratchpad as written, takes
\* the copy and keeps the byte
LockPageOnDevice ==
  /\ Idle
  /\ \E page \in PagesFromZero, presence \in Presences :
         LET r == lockPage(page, presence, NoDev)
             kept == IF isEPROMDevice THEN eeprom
                     ELSE Store(eeprom, Committed(r.log))
         IN  /\ Reached(page, presence)
             /\ Cardinality(kept) <= MaxStored
             /\ call' = PageCall("lockPage", page, r, NoDev)
             /\ eeprom' = kept
             /\ locks' = IF r.ret = 0 /\ ~isEPROMDevice
                           THEN locks \cup {<<_addr, page>>} ELSE locks
             /\ _addr' = AddrAfterPageOp(page, presence)
             /\ pinLevel' = PinAfter(pinLevel, r.log)
             /\ UNCHANGED <<_curModelIndex, _progPin, pooled, session, bus>>

\* isPageLocked reaches a device that answers with the byte it keeps
IsPageLockedOnDevice ==
  /\ Idle
  /\ \E page \in PagesFromZero, presence \in Presences :
         LET dev == StoredDev(page, presence)
             r == isPageLocked(page, presence, dev)
         IN  /\ Reached(page, presence)
             /\ call' = PageCall("isPageLocked", page, r, dev)
             /\ _addr' = AddrAfterPageOp(page, presence)
             /\ pinLevel' = PinAfter(pinLevel, r.log)
             /\ UNCHANGED <<_curModelIndex, _progPin, pooled, session, bus,
                            eeprom, locks>>

\* ---- the environment: devices are attached to and removed from the bus --
Plug ==
  /\ Idle
  /\ \E a \in Addresses :
         /\ Cardinality(bus) < MaxBus
         /\ a \notin bus
         /\ bus' = bus \cup {a}
         /\ UNCHANGED <<_curModelIndex, _addr, _progPin, pooled, session, call,
                        pinLevel, eeprom, locks>>

Unplug ==
  /\ Idle
  /\ \E a \in bus :
         /\ bus' = bus \ {a}
         /\ UNCHANGED <<_curModelIndex, _addr, _progPin, pooled, session, call,
                        pinLevel, eeprom, locks>>

\* the caller takes the result
Return ==
  /\ ~Idle
  /\ call' = NoCall("none")
  /\ UNCHANGED <<_curModelIndex, _addr, _progPin, pooled, session, bus,
                 pinLevel, eeprom, locks>>

Next ==
  \/ Search
  \/ SetAddress
  \/ GetDeviceName
  \/ IsConnected
  \/ ReadPage
  \/ WritePage
  \/ LockPage
  \/ IsPageLocked
  \/ Plug
  \/ Unplug
  \/ Return

Spec == Init /\ [][Next]_vars

\* the session with one kind of page operation at a time
NextRead ==
  \/ Search
  \/ SetAddress
  \/ Plug
  \/ Unplug
  \/ ReadPage
  \/ Return

SpecRead == Init /\ [][NextRead]_vars

NextWrite ==
  \/ Search
  \/ SetAddress
  \/ Plug
  \/ Unplug
  \/ WritePage
  \/ LockPage
  \/ Return

SpecWrite == Init /\ [][NextWrite]_vars

NextLocked ==
  \/ Search
  \/ SetAddress
  \/ Plug
  \/ Unplug
  \/ IsPageLocked
  \/ Return

SpecLocked == Init /\ [][NextLocked]_vars

\* the session operations alone
NextSession ==
  \/ Search
  \/ SetAddress
  \/ GetDeviceName
  \/ IsConnected
  \/ Plug
  \/ Unplug
  \/ Return

SpecSession == Init /\ [][NextSession]_vars

\* locking and asking, with devices that keep what is committed
NextDevice ==
  \/ Search
  \/ SetAddress
  \/ Plug
  \/ Unplug
  \/ LockPageOnDevice
  \/ IsPageLockedOnDevice
  \/ Return

SpecDevice == Init /\ [][NextDevice]_vars

\* ==== the properties ======================================================
PageOps == {"readPage", "writePage", "lockPage", "isPageLocked"}
ErrorCodes ==
  {CRC_MISMATCH, INVALID_PAGE, PAGE_LOCKED, BAD_INTEGRITY, COPY_FAILURE,
   UNSUPPORTED_DEVICE, DEVICE_DISCONNECTED}

\* reading the recorded bus traffic
IsEv(log, i, kind) == i \in 1 .. Len(log) /\ log[i][1] = kind
IsEvOf(log, i, kind, v) == IsEv(log, i, kind) /\ log[i][2] = v
SelectsIn(log) == {i \in 1 .. Len(log) : log[i][1] = "select"}
\* a command is the byte written right after a select
CommandsIn(log) == {log[i + 1][2] : i \in {j \in SelectsIn(log) : IsEv(log, j + 1, "write")}}
WritesIn(log) == {i \in 1 .. Len(log) : log[i][1] \in {"write", "write_power"}}
\* the connectivity check of the call failed: reset reported no presence, or
\* the device with the stored address is not on the bus
ResetFailed(log) == log = <<EvReset>>
Disconnected == ResetFailed(call.log) \/ \A a \in bus : memcmp(_addr, a, 8) # 0
\* what isPageLocked returns for a locked page
Locked == ToBool(1)

\* C1: with a resolved session and a connected, correctly answering device,
\* every page operation returns INVALID_PAGE for page = pageCount and no
\* error status for page = pageCount - 1.
C1_BoundaryPages ==
  (/\ call.op \in PageOps
   /\ session = "resolved"
   /\ _addr \in bus)
  => /\ call.page = Model(_curModelIndex).pages => call.ret = INVALID_PAGE
     /\ (/\ call.page = Model(_curModelIndex).pages - 1
         /\ ~ResetFailed(call.log)
         /\ call.fault = NoFault) => call.ret \notin ErrorCodes

\* C2: isPageValid(page) holds exactly when a model is selected and
\* 0 <= page < pageCount; with a negative page every page operation
\* returns INVALID_PAGE and touches the bus not at all.  Stated for the
\* sessions that search() or setAddress() has set up.
C2_NegativePageInvalid ==
  (call.op \in PageOps /\ session # "fresh")
  => /\ isPageValid(call.page)
          <=> (/\ _curModelIndex >= 0
               /\ 0 <= call.page
               /\ call.page < Model(_curModelIndex).pages)
     /\ call.page < 0 => (call.ret = INVALID_PAGE /\ call.log = <<>>)

\* C3: as long as neither search() nor setAddress() has resolved a model
\* (fresh engine, failed search, unmatched address), readPage, writePage and
\* lockPage never return 0 and never send a memory-read, memory-write or
\* status-write command.  Stated for the page indexes from 0 on.
C3_NoSuccessUnresolved ==
  (/\ call.op \in {"readPage", "writePage", "lockPage"}
   /\ call.page >= 0
   /\ session \in {"fresh", "unresolved"})
  => /\ call.ret # 0
     /\ CommandsIn(call.log) \cap {READMEMORY, WRITEMEMORY, WRITESTATUS} = {}

\* C4: after setAddress() with an unknown family code or a search() that
\* returned false the session is unresolved: getDeviceName() returns the
\* null pointer and every page operation returns INVALID_PAGE.
C4_UnresolvedAfterFailure ==
  session = "unresolved"
  => /\ _curModelIndex = -1
     /\ call.op = "getDeviceName" => call.name = "NULL"
     /\ call.op \in PageOps => call.ret = INVALID_PAGE

\* C5: with a resolved model and a valid page, every page operation returns
\* DEVICE_DISCONNECTED when the reset reports no presence or the search
\* enumerates no address equal to the stored one in all 8 bytes, and sends
\* no select and no command byte.
C5_DisconnectedReported ==
  (/\ call.op \in PageOps
   /\ session = "resolved"
   /\ 0 <= call.page
   /\ isPageValid(call.page)
   /\ Disconnected)
  => /\ call.ret = DEVICE_DISCONNECTED
     /\ SelectsIn(call.log) = {}
     /\ WritesIn(call.log) = {}

\* C6: isPageLocked returns INVALID_PAGE for an invalid page,
\* DEVICE_DISCONNECTED for a disconnected device and CRC_MISMATCH for a wrong
\* status CRC echo, and none of these values is the value returned for a
\* locked page.  Stated for the sessions that search() or setAddress() has
\* set up and the page indexes from 0 on.
C6_LockedErrorsDistinct ==
  (call.op = "isPageLocked" /\ session # "fresh" /\ call.page >= 0)
  => /\ ~isPageValid(call.page)
          => (call.ret = INVALID_PAGE /\ call.ret # Locked)
     /\ (isPageValid(call.page) /\ Disconnected)
          => (call.ret = DEVICE_DISCONNECTED /\ call.ret # Locked)
     /\ call.fault[1] = "crc_status"
          => (call.ret = CRC_MISMATCH /\ call.ret # Locked)

\* C7: lockPage on an EEPROM model returns 0 only if the scratchpad commit
\* of the 0x55 byte succeeded: when the device echoes the scratchpad wrong
\* it returns BAD_INTEGRITY, when the copy is not acknowledged with 0xAA it
\* returns COPY_FAILURE.  Stated for resolved sessions and valid pages.
C7_LockReportsScratchStatus ==
  (/\ call.op = "lockPage"
   /\ ~isEPROMDevice
   /\ session = "resolved"
   /\ call.page >= 0)
  => /\ call.fault[1] = "echo" => call.ret = BAD_INTEGRITY
     /\ call.fault[1] = "copy" => call.ret = COPY_FAILURE

\* the k-th smallest element of a set of positions
Kth(S, k) == CHOOSE x \in S : Cardinality({y \in S : y < x}) = k - 1

\* C8: EPROM readPage, status CRC matched: the memory-read command carries
\* the redirect byte r as address (low r, high 0) when r is not 0xFF and
\* page*32 when it is; if the memory-read CRC matches too, 32 bytes are
\* read into the buffer and 0 is returned.
C8_RedirectedRead ==
  (/\ call.op = "readPage"
   /\ isEPROMDevice
   /\ SelectsIn(call.log) # {})
  => LET log == call.log
         s1 == Minimum(SelectsIn(log))
         statusCommand == <<READSTATUS, Byte(call.page + 1), 0>>
         r == log[s1 + 5][2]
         target == IF r # 255 THEN r ELSE UInt(call.page * 32)
         memoryCommand == <<READMEMORY, Byte(target), target \div 256>>
     IN  IsEvOf(log, s1 + 4, "read", crc8(statusCommand, 3))
         => /\ IsEv(log, s1 + 5, "read")
            /\ IsEv(log, s1 + 7, "select")
            /\ IsEvOf(log, s1 + 8, "write", memoryCommand[1])
            /\ IsEvOf(log, s1 + 9, "write", memoryCommand[2])
            /\ IsEvOf(log, s1 + 10, "write", memoryCommand[3])
            /\ (r # 255 => memoryCommand[3] = 0)
            /\ IsEvOf(log, s1 + 11, "read", crc8(memoryCommand, 3))
                 => /\ call.ret = 0
                    /\ Len(log) = s1 + 11 + 32
                    /\ Len(call.data) = 32
                    /\ \A i \in 1 .. 32 :
                         IsEvOf(log, s1 + 11 + i, "read", call.data[i])

\* a redirected page of an EPROM was read
C8_Witness ==
  /\ call.op = "readPage"
  /\ isEPROMDevice
  /\ session = "resolved"
  /\ call.page > 0
  /\ call.ret = 0
  /\ IsEvOf(call.log, Minimum(SelectsIn(call.log)) + 5, "read", 7)
  /\ IsEvOf(call.log, Minimum(SelectsIn(call.log)) + 9, "write", 7)

\* the positions where a scratchpad sub-protocol starts: a select followed
\* by WRITEMEMORY
ScratchStarts(log) ==
  {i \in SelectsIn(log) : IsEvOf(log, i + 1, "write", WRITEMEMORY)}

\* C9: EEPROM writePage on a valid page runs the scratchpad sub-protocol on
\* 8 bytes each at page*32 + 0, 8, 16, 24 in this order, with data[0..7],
\* data[8..15], data[16..23], data[24..31]; four times and returning 0 when
\* all succeed; when the k-th fails, k times and returning its status.
C9_FourChunksInOrder ==
  (/\ call.op = "writePage"
   /\ ~isEPROMDevice
   /\ 0 <= call.page
   /\ SelectsIn(call.log) # {})
  => LET log == call.log
         starts == ScratchStarts(log)
         n == Cardinality(starts)
     IN  /\ n \in 1 .. 4
         /\ \A k \in 1 .. n :
              LET s == Kth(starts, k)
                  offset == call.page * 32 + 8 * (k - 1)
              IN  /\ IsEvOf(log, s + 2, "write", offset % 256)
                  /\ IsEvOf(log, s + 3, "write", offset \div 256)
                  /\ \A j \in 1 .. 8 :
                       IsEvOf(log, s + 3 + j, "write", call.data[8 * (k - 1) + j])
                  /\ ~IsEv(log, s + 12, "write")
         /\ call.fault = NoFault => (n = 4 /\ call.ret = 0)
         /\ call.fault[1] = "echo"
              => (n = (call.fault[2] \div 8) + 1 /\ call.ret = BAD_INTEGRITY)
         /\ call.fault[1] = "copy"
              => (n = (call.fault[2] \div 8) + 1 /\ call.ret = COPY_FAILURE)

\* a page past the first was written to an EEPROM in four chunks
C9_Witness ==
  /\ call.op = "writePage"
  /\ ~isEPROMDevice
  /\ session = "resolved"
  /\ call.page > 0
  /\ call.ret = 0
  /\ call.data = Ramp
  /\ Cardinality(ScratchStarts(call.log)) = 4

\* the second chunk failed and no third was sent
C9_WitnessStopped ==
  /\ call.op = "writePage"
  /\ ~isEPROMDevice
  /\ session = "resolved"
  /\ call.page > 0
  /\ call.ret = COPY_FAILURE
  /\ Cardinality(ScratchStarts(call.log)) = 2

\* in the sub-protocol started at s with len data bytes, the device echoed
\* some scratchpad byte wrong
EchoedWrong(log, s, len) ==
  /\ IsEvOf(log, s + 6 + len, "write", READSTATUS)
  /\ \E j \in 1 .. len :
       /\ IsEv(log, s + 7 + len + j, "read")
       /\ log[s + 7 + len + j][2] # log[s + 3 + j][2]

\* C10: on the scratchpad path with integrity check (every EEPROM model
\* but the special-cased DS2430), a scratchpad byte echoed wrong makes the
\* sub-protocol return BAD_INTEGRITY, which writePage passes on, and no
\* commit command is written after it.
C10_NoCommitAfterBadEcho ==
  (/\ call.op \in {"writePage", "lockPage"}
   /\ ~isEPROMDevice)
  => LET log == call.log
         len == IF call.op = "writePage" THEN 8 ELSE 1
     IN  \A s \in ScratchStarts(log) :
           EchoedWrong(log, s, len)
           => /\ call.op = "writePage" => call.ret = BAD_INTEGRITY
              /\ \A i \in SelectsIn(log) :
                   i > s => ~IsEvOf(log, i + 1, "write", WRITESTATUS)

\* a DS2431 or DS2433 echoed a byte of the second chunk wrong
C10_Witness ==
  /\ call.op = "writePage"
  /\ session = "resolved"
  /\ Model(_curModelIndex).name \in {"DS2431", "DS2433"}
  /\ call.fault = <<"echo", 12>>
  /\ call.ret = BAD_INTEGRITY
  /\ \E s \in ScratchStarts(call.log) : EchoedWrong(call.log, s, 8)

\* the bytes written to and read from the bus, without resets, selects,
\* delays and pin changes
IsBusByte(e) == e[1] \in {"write", "read"}
BusBytes(log) == SelectSeq(log, IsBusByte)

\* C11: EPROM writePage on a valid page sends {WRITEMEMORY, addrLow,
\* addrHigh, data[0]} and returns 0 exactly when the device's CRC echo is
\* the CRC8 of these four bytes and each of the 32 bytes is read back as
\* written; a wrong CRC echo gives CRC_MISMATCH; the first wrong read-back,
\* at byte i, gives COPY_FAILURE and no byte after byte i is written.
C11_EPROMWriteVerified ==
  (/\ call.op = "writePage"
   /\ isEPROMDevice
   /\ 0 <= call.page
   /\ isPageValid(call.page)
   /\ SelectsIn(call.log) # {})
  => LET t == BusBytes(call.log)
         address == call.page * 32
         command == <<WRITEMEMORY, address % 256, address \div 256, call.data[1]>>
         crcOk == IsEvOf(t, 5, "read", crc8(command, 4))
         \* the read-back of byte i is the third bus byte of its step
         readBack(i) == 6 + 3 * i
         good(i) == IsEvOf(t, readBack(i), "read", call.data[i + 1])
         wrong(i) == /\ IsEv(t, readBack(i), "read")
                     /\ t[readBack(i)][2] # call.data[i + 1]
     IN  /\ \A j \in 1 .. 4 : IsEvOf(t, j, "write", command[j])
         /\ IsEv(t, 5, "read")
         /\ call.ret = 0 <=> (crcOk /\ \A i \in 0 .. 31 : good(i))
         /\ ~crcOk => (call.ret = CRC_MISMATCH /\ Len(t) = 5)
         /\ crcOk =>
              /\ \A i \in 1 .. 31 :
                   readBack(i) <= Len(t)
                   => /\ IsEvOf(t, readBack(i) - 2, "write", call.data[i + 1])
                      /\ IsEv(t, readBack(i) - 1, "read")
                      /\ good(i - 1)
              /\ \A i \in 0 .. 31 :
                   wrong(i) => (call.ret = COPY_FAILURE /\ Len(t) = readBack(i))

\* an EPROM read the second byte of a page back wrong, and the write
\* stopped there
C11_Witness ==
  /\ call.op = "writePage"
  /\ isEPROMDevice
  /\ session = "resolved"
  /\ call.page > 0
  /\ call.fault = <<"burn", 1>>
  /\ call.ret = COPY_FAILURE
  /\ Len(BusBytes(call.log)) = 9

\* an EPROM took a whole page
C11_WitnessWritten ==
  /\ call.op = "writePage"
  /\ isEPROMDevice
  /\ session = "resolved"
  /\ call.page > 0
  /\ call.data = Ramp
  /\ call.ret = 0
  /\ Len(BusBytes(call.log)) = 6 + 3 * 31

\* the addresses search() took from the enumeration, in order
SearchedIn(log) ==
  LET at == {i \in 1 .. Len(log) : log[i][1] = "search"}
  IN  [k \in 1 .. Cardinality(at) |-> log[Kth(at, k)][2]]
\* the family code of the address is the id of some registry entry
InRegistry(a) == \E i \in 0 .. 4 : Model(i).id = a[1]

\* C12: search() takes the devices in the order of the enumeration, skips
\* those whose family code is not in the registry and stops at the first
\* whose family code is: it returns true, the stored address is that
\* device's and the model is the registry entry of its family code.  It
\* returns false, with no model, when the reset reports no presence or the
\* enumeration ends without such a device.
C12_SearchFirstSupported ==
  call.op = "search"
  => LET taken == SearchedIn(call.log)
         order == Enumeration(bus)
         n == Len(taken)
     IN  /\ n <= Len(order)
         /\ \A k \in 1 .. n : taken[k] = order[k]
         /\ \A k \in 1 .. (n - 1) : ~InRegistry(taken[k])
         /\ call.ret \in {0, 1}
         /\ call.ret = 1
              => /\ n >= 1
                 /\ InRegistry(taken[n])
                 /\ _addr = taken[n]
                 /\ _curModelIndex \in 0 .. 4
                 /\ Model(_curModelIndex).id = _addr[1]
         /\ call.ret = 0
              => /\ _curModelIndex = -1
                 /\ \/ ResetFailed(call.log)
                    \/ (n = Len(order) /\ \A k \in 1 .. n : ~InRegistry(taken[k]))
         /\ (~ResetFailed(call.log) /\ \E a \in bus : InRegistry(a))
              => call.ret = 1

\* search() passed a device of an unknown family and stopped at a DS2431
C12_Witness ==
  /\ call.op = "search"
  /\ call.ret = 1
  /\ Len(SearchedIn(call.log)) = 2
  /\ ~InRegistry(SearchedIn(call.log)[1])
  /\ _addr = Rom(45, 1)
  /\ Model(_curModelIndex).name = "DS2431"

\* search() found only a device of an unknown family
C12_WitnessNone ==
  /\ call.op = "search"
  /\ call.ret = 0
  /\ bus = {Rom(40, 1)}
  /\ SearchedIn(call.log) = <<Rom(40, 1)>>

\* the bits set in a byte
BitsOf(b) == {k \in 0 .. 7 : (b \div Pow2(k)) % 2 = 1}

\* C13: EPROM lockPage on a valid page p of the selected model sends the
\* four bytes {WRITESTATUS, 0x00, 0x00, mask}, and bit p is the one and only
\* bit set in the mask byte.
C13_LockMaskOneBit ==
  (/\ call.op = "lockPage"
   /\ isEPROMDevice
   /\ session = "resolved"
   /\ 0 <= call.page
   /\ isPageValid(call.page)
   /\ SelectsIn(call.log) # {})
  => LET t == BusBytes(call.log)
     IN  /\ IsEvOf(t, 1, "write", WRITESTATUS)
         /\ IsEvOf(t, 2, "write", 0)
         /\ IsEvOf(t, 3, "write", 0)
         /\ IsEv(t, 4, "write")
         /\ t[4][2] \in 0 .. 255
         /\ BitsOf(t[4][2]) = {call.page}

\* C14: the page is validated before the bus is touched: with an invalid
\* page index readPage, writePage, lockPage and isPageLocked return
\* INVALID_PAGE and record no reset, no search and no byte write, whether
\* the device is attached or not.  Stated for the sessions that search() or
\* setAddress() has set up and the page indexes from 0 on.
C14_InvalidPageBeforeBus ==
  (/\ call.op \in PageOps
   /\ session # "fresh"
   /\ call.page >= 0
   /\ ~(_curModelIndex >= 0 /\ call.page < Model(_curModelIndex).pages))
  => /\ call.ret = INVALID_PAGE
     /\ call.log = <<>>

\* the commit of the sub-protocol started at s: the first select after s
\* that is followed by WRITESTATUS, 0 when the log has none
CommitOf(log, s) ==
  LET later == {i \in SelectsIn(log) :
                  i > s /\ IsEvOf(log, i + 1, "write", WRITESTATUS)}
  IN  IF later = {} THEN 0 ELSE Minimum(later)
ReadsFrom(log, s) ==
  {i \in s .. Len(log) : log[i][1] \in {"read", "read_bytes"}}

\* C15: in the scratchpad sub-protocol the commit is followed by a delay of
\* 10 ms, then the depower, and only then the read of the success byte.
\* On every EEPROM model but the DS2430 a success byte other than 0xAA gives
\* COPY_FAILURE and 0xAA gives 0.  On the DS2430 the commit is {WRITESTATUS,
\* VERIFYRESUME}, nothing is read from the device, and the status is 0.
\* The status is observed as the return value of writePage.
C15_CommitDelayDepowerRead ==
  (/\ call.op \in {"writePage", "lockPage"}
   /\ ~isEPROMDevice
   /\ session = "resolved"
   /\ 0 <= call.page)
  => LET log == call.log
         len == IF call.op = "writePage" THEN 8 ELSE 1
     IN  \A s \in ScratchStarts(log) :
           LET c == CommitOf(log, s)
           IN  IF Model(_curModelIndex).name = "DS2430"
                 THEN /\ c = s + 5 + len
                      /\ IsEvOf(log, c + 2, "write", VERIFYRESUME)
                      /\ IsEvOf(log, c + 3, "delay", 10)
                      /\ IsEv(log, c + 4, "depower")
                      /\ ReadsFrom(log, s) = {}
                      /\ call.ret = 0
                 ELSE c # 0 /\ c < s + 20 + 2 * len
                      => /\ IsEv(log, c + 4, "write_power")
                         /\ IsEvOf(log, c + 5, "delay", 10)
                         /\ IsEv(log, c + 6, "depower")
                         /\ IsEv(log, c + 7, "read")
                         /\ ReadsFrom(log, c) \cap 1 .. (c + 6) = {}
                         /\ call.op = "writePage"
                              => /\ log[c + 7][2] # 170
                                   => (call.ret = COPY_FAILURE /\ Len(log) = c + 7)
                                 /\ (log[c + 7][2] = 170 /\ Len(log) = c + 7)
                                   => call.ret = 0

\* the page operation of the call got past its preamble on an EEPROM model,
\* with a page of the model
OnEEPROMPage ==
  /\ session = "resolved"
  /\ ~isEPROMDevice
  /\ 0 <= call.page
  /\ call.page < Model(_curModelIndex).pages
  /\ SelectsIn(call.log) # {}
\* the offset carried by the two bytes written after the command byte
OffsetAfter(log, command) ==
  LET i == Minimum({j \in WritesIn(log) : log[j][2] = command})
  IN  log[i + 1][2] + 256 * log[i + 2][2]

C16_WitnessOther ==
  /\ call.op = "isPageLocked"
  /\ OnEEPROMPage
  /\ Model(_curModelIndex).name = "DS2431"
  /\ call.page = 0
  /\ call.ret = 0
  /\ <<_addr, 3>> \in locks

\* the positions where the programming pin is driven to the level
PinWrites(log, level) ==
  {i \in 1 .. Len(log) : log[i][1] = "digitalWrite" /\ log[i][3] = level}
ReadsIn(log) == {i \in 1 .. Len(log) : log[i][1] = "read"}

\* C17: the programming pin is driven high only by writePage and lockPage on
\* a model that the registry marks as EPROM, and only after the device's
\* CRC echo of the four-byte write-memory or write-status command matched.
\* A call that returns INVALID_PAGE, DEVICE_DISCONNECTED or CRC_MISMATCH, or
\* that runs on an EEPROM model, never drives it high.
C17_PulseAfterCrcOnly ==
  LET log == call.log
      highs == PinWrites(log, "HIGH")
      t == BusBytes(log)
  IN  /\ highs # {}
        => /\ call.op \in {"writePage", "lockPage"}
           /\ _curModelIndex >= 0
           /\ Model(_curModelIndex).isEPROM
           /\ \A j \in 1 .. 4 : IsEv(t, j, "write")
           /\ t[1][2] = (IF call.op = "writePage" THEN WRITEMEMORY
                                                  ELSE WRITESTATUS)
           /\ IsEvOf(t, 5, "read",
                     crc8(<<t[1][2], t[2][2], t[3][2], t[4][2]>>, 4))
           /\ \A i \in highs : i > Minimum(ReadsIn(log))
      /\ (/\ call.op \in PageOps
          /\ \/ call.ret \in {INVALID_PAGE, DEVICE_DISCONNECTED, CRC_MISMATCH}
             \/ _curModelIndex < 0
             \/ ~Model(_curModelIndex).isEPROM)
        => highs = {}

\* a DS2505 echoed the CRC of the write-status command and got the pulse
C17_Witness ==
  /\ call.op = "lockPage"
  /\ session = "resolved"
  /\ Model(_curModelIndex).name = "DS2505"
  /\ call.ret = 0
  /\ PinWrites(call.log, "HIGH") # {}

\* an EPROM echoed a wrong CRC and the pin stayed low
C17_WitnessMismatch ==
  /\ call.op = "writePage"
  /\ session = "resolved"
  /\ isEPROMDevice
  /\ _progPin >= 0
  /\ call.ret = CRC_MISMATCH
  /\ PinWrites(call.log, "HIGH") = {}

\* C18: with a programming pin configured, the pin is low after
\* construction and whenever a public operation has returned, whatever the
\* status; within a call every write of HIGH is followed by a write of LOW
\* before the next byte is read from the bus.
C18_PinLowAtReturn ==
  _progPin >= 0
  => /\ pinLevel = "LOW"
     /\ \A i \in PinWrites(call.log, "HIGH") :
          \E j \in PinWrites(call.log, "LOW") :
            /\ j > i
            /\ \A k \in ReadsIn(call.log) : k > i => k > j

\* an EPROM page write with a programming pin stopped with COPY_FAILURE at
\* the second byte, after two pulses
C18_Witness ==
  /\ _progPin >= 0
  /\ call.op = "writePage"
  /\ session = "resolved"
  /\ call.ret = COPY_FAILURE
  /\ call.fault = <<"burn", 1>>
  /\ Cardinality(PinWrites(call.log, "HIGH")) = 2
  /\ pinLevel = "LOW"

\* the registry entries with the family code
EntriesOf(family) == {i \in 0 .. 4 : Model(i).id = family}

\* C19: whenever search() or setAddress() has resolved a model, and whatever
\* isConnected() and the page operations did since, the family code of the
\* model is byte 0 of the stored address, and getDeviceName() returns the
\* name of the registry entry of that byte.
C19_ModelMatchesAddress ==
  session = "resolved"
  => /\ _curModelIndex \in EntriesOf(_addr[1])
     /\ call.op = "getDeviceName"
          => \E i \in EntriesOf(_addr[1]) : call.name = _chip_model_list[i + 1].name

\* the name of a DS2433 is asked for with its address stored
C19_Witness ==
  /\ session = "resolved"
  /\ call.op = "getDeviceName"
  /\ _addr = Rom(35, 1)
  /\ call.name = "DS2433"

\* C20: isConnected(), getDeviceName(), readPage, writePage, lockPage and
\* isPageLocked leave the stored address and the model as they are,
\* whatever they return and whatever the scan of their connectivity check
\* enumerates: a step that changes either of them is a search() or a
\* setAddress().
C20_OnlySessionOpsStore ==
  [][(_addr' # _addr \/ _curModelIndex' # _curModelIndex)
       => call'.op \in {"search", "setAddress"}]_vars

\* the connectivity check of a page operation passed another device's ROM
\* code before it came to the stored one, and the stored one is what it was
C20_Witness ==
  /\ call.op \in PageOps
  /\ session = "resolved"
  /\ Len(SearchedIn(call.log)) = 2
  /\ SearchedIn(call.log)[1] # _addr
  /\ SearchedIn(call.log)[2] = _addr
  /\ _curModelIndex \in EntriesOf(_addr[1])

\* isConnected() went through two ROM codes and found neither to be the
\* stored one
C20_WitnessConnected ==
  /\ call.op = "isConnected"
  /\ call.ret = 0
  /\ Len(SearchedIn(call.log)) = 2
  /\ \A k \in 1 .. 2 : SearchedIn(call.log)[k] # _addr
====
